---- MODULE Spec2Model ----
(***************************************************************************)
(* Symbol recognition of a freehand stroke (LVQT-ss/symbolReg).            *)
(*                                                                         *)
(* A stroke is captured point by point and, when the gesture ends, handed  *)
(* to recognizeSymbol, which validates, simplifies and normalizes the      *)
(* path, extracts its features and scores them against ">" and "<".        *)
(*                                                                         *)
(* JavaScript numbers are modelled as records [k, n, d]: a finite rational *)
(* n/d in lowest terms (k = "fin"), NaN, +Infinity, -Infinity, or a value  *)
(* that is not a number at all (k = "undef": typeof is not "number").      *)
(* Arithmetic on finite values is exact; the coordinates the model draws   *)
(* are small integers, for which the double-precision results of the code  *)
(* order the same way as the exact ones.                                   *)
(***************************************************************************)
EXTENDS Integers, Sequences, FiniteSets, TLC

VARIABLES
    family,          \* which set of entries the stroke is drawn from
    path,            \* the raw captured sequence handed to recognizeSymbol
    pc,              \* "drawing" while the stroke grows, "done" once classified
    safe,            \* extractFeatures' safePath (<<>> when the step is not reached)
    simplified,      \* extractFeatures' simplifiedPath (<<>> when not reached)
    normalized,      \* extractFeatures' normalizedPath (<<>> when not reached)
    features,        \* what extractFeatures returned (NoFeatures for null)
    result,          \* what recognizeSymbol returned: symbol and confidence
    utilsResult,     \* what the utils copy of recognizeSymbol returned: symbol only
    givenTolerance,  \* the tolerance simplifyPath was last called with
    keptAt,          \* the positions in path of the points simplifyPath returned
    returned,        \* the path a direct call of simplifyPath / normalizePath returned
    curvature,       \* the number a direct call of calculateCurvature returned
    currentSymbol,   \* Index: the symbol displayed
    paths,           \* Index: the saved paths
    shouldClearOnNextDraw,  \* Index: the next gesture start clears the screen
    rawPath,         \* Canvas.onEnd: the path of the gesture that ended last
    invoked,         \* the paths recognizeSymbol was called with by that gesture end
    gestures         \* how many gestures have ended

vars == <<family, path, pc, safe, simplified, normalized, features, result, utilsResult,
          givenTolerance, keptAt, returned, curvature,
          currentSymbol, paths, shouldClearOnNextDraw, rawPath, invoked, gestures>>

\* What recognizeSymbol leaves behind, and what a direct call of a stage does.
pipelineVars == <<safe, simplified, normalized, features, result, utilsResult>>
callVars == <<givenTolerance, keptAt, returned, curvature>>
\* The state of the screen (Index) and of the gesture that ended last.
screenVars == <<currentSymbol, paths, shouldClearOnNextDraw, rawPath, invoked, gestures>>

---------------------------------------------------------------------------
(* JavaScript numbers *)

RECURSIVE GCD(_, _)
GCD(a, b) == IF b = 0 THEN a ELSE GCD(b, a % b)

AbsInt(n) == IF n < 0 THEN -n ELSE n

Reduced(n, d, g) == [k |-> "fin", n |-> n \div g, d |-> d \div g]

\* The rational n/d (d > 0) in lowest terms.
Rat(n, d) == Reduced(n, d, GCD(AbsInt(n), d))

Fin(n) == [k |-> "fin", n |-> n, d |-> 1]
NaN == [k |-> "nan", n |-> 0, d |-> 1]
PInf == [k |-> "pinf", n |-> 0, d |-> 1]
NInf == [k |-> "ninf", n |-> 0, d |-> 1]
Undef == [k |-> "undef", n |-> 0, d |-> 1]

\* typeof v === "number"
IsNumber(v) == v.k # "undef"
\* isNaN(v): the argument is converted to a number first, undefined to NaN.
\* An arithmetic operator converts its operands the same way.
isNaN(v) == v.k \in {"nan", "undef"}
\* isFinite(v)
isFinite(v) == v.k = "fin"

\* a - b
Sub(a, b) ==
    IF isNaN(a) \/ isNaN(b) THEN NaN
    ELSE IF a.k = "fin" /\ b.k = "fin"
         THEN Rat(a.n * b.d - b.n * a.d, a.d * b.d)
    ELSE IF a.k = "fin" THEN (IF b.k = "pinf" THEN NInf ELSE PInf)
    ELSE IF b.k = "fin" THEN a
    ELSE IF a.k = b.k THEN NaN
    ELSE a

\* a + b
Add(a, b) ==
    IF isNaN(a) \/ isNaN(b) THEN NaN
    ELSE IF a.k = "fin" /\ b.k = "fin"
         THEN Rat(a.n * b.d + b.n * a.d, a.d * b.d)
    ELSE IF a.k = "fin" THEN b
    ELSE IF b.k = "fin" THEN a
    ELSE IF a.k = b.k THEN a
    ELSE NaN

\* a * a
Sq(a) ==
    IF isNaN(a) THEN NaN
    ELSE IF a.k = "fin" THEN Rat(a.n * a.n, a.d * a.d)
    ELSE PInf

\* a / b (a zero divisor is +0 wherever the code divides)
Div(a, b) ==
    IF isNaN(a) \/ isNaN(b) THEN NaN
    ELSE IF a.k = "fin" /\ b.k = "fin"
         THEN IF b.n = 0
              THEN (IF a.n = 0 THEN NaN ELSE IF a.n > 0 THEN PInf ELSE NInf)
              ELSE IF b.n > 0 THEN Rat(a.n * b.d, a.d * b.n)
              ELSE Rat(-(a.n * b.d), a.d * (-b.n))
    ELSE IF a.k = "fin" THEN Fin(0)
    ELSE IF b.k = "fin"
         THEN IF b.n >= 0 THEN a ELSE (IF a.k = "pinf" THEN NInf ELSE PInf)
    ELSE NaN

\* a < b (false whenever an operand is NaN)
Lt(a, b) ==
    IF isNaN(a) \/ isNaN(b) THEN FALSE
    ELSE IF a.k = "fin" /\ b.k = "fin" THEN a.n * b.d < b.n * a.d
    ELSE IF a.k = "ninf" THEN b.k # "ninf"
    ELSE IF b.k = "pinf" THEN a.k # "pinf"
    ELSE FALSE

\* a > b
Gt(a, b) == Lt(b, a)

\* Math.min(a, b): NaN if either is NaN
MathMin(a, b) ==
    IF isNaN(a) \/ isNaN(b) THEN NaN
    ELSE IF Lt(b, a) THEN b ELSE a

\* Math.max(a, b): NaN if either is NaN
MathMax(a, b) ==
    IF isNaN(a) \/ isNaN(b) THEN NaN
    ELSE IF Lt(a, b) THEN b ELSE a

\* Math.abs(a)
MathAbs(a) ==
    IF isNaN(a) THEN NaN
    ELSE IF a.k = "fin" THEN [k |-> "fin", n |-> AbsInt(a.n), d |-> a.d]
    ELSE PInf

\* a === b (NaN equals nothing, not even itself)
StrictEq(a, b) == ~isNaN(a) /\ ~isNaN(b) /\ ~Lt(a, b) /\ ~Lt(b, a)

\* v === 0
IsZero(v) == v.k = "fin" /\ v.n = 0

\* v || 1: a falsy number (0 or NaN) gives 1
OrOne(v) == IF IsZero(v) \/ isNaN(v) THEN Fin(1) ELSE v

---------------------------------------------------------------------------
(* Entries of a captured path.  An entry is a point object, or is absent   *)
(* (null / undefined: present = FALSE).                                    *)

Pt(x, y) == [present |-> TRUE, x |-> x, y |-> y]
P(x, y) == Pt(Fin(x), Fin(y))
Absent == [present |-> FALSE, x |-> Undef, y |-> Undef]

\* isValidPoint with isFinite for !isNaN.
isValidPointFinite(point) ==
    /\ point.present
    /\ point.x.k = "fin"
    /\ point.y.k = "fin"

\* isValidPoint without the check of y against NaN.
isValidPointXOnly(point) ==
    /\ point.present
    /\ point.x.k \notin {"undef", "nan"}
    /\ point.y.k # "undef"

\* The filter predicate of extractFeatures (and of Canvas.onEnd): the entry is
\* present, x and y are numbers, and neither is NaN.  Infinity passes.
isValidPoint(point) ==
    /\ point.present
    /\ IsNumber(point.x)
    /\ IsNumber(point.y)
    /\ ~isNaN(point.x)
    /\ ~isNaN(point.y)

---------------------------------------------------------------------------
(* Program constants *)

\* simplifyPath's default tolerance
DefaultTolerance == 5
\* the fewest points recognizeSymbol and extractFeatures work on
MinPoints == 5
\* the fewest points of a simplified / normalized path
MinSimplified == 3
\* the points of the apex check, the dip check and the level-endpoints check
ApexPoints == 40
DipPoints == 30
LevelPoints == 30
\* the cap of the confidence
MaxConfidence == 100

---------------------------------------------------------------------------
(* getPathBoundingBox *)

RECURSIVE boxFold(_, _, _)
boxFold(pts, i, acc) ==
    IF i > Len(pts) THEN acc
    ELSE boxFold(pts, i + 1,
                 [minX |-> MathMin(acc.minX, pts[i].x),
                  maxX |-> MathMax(acc.maxX, pts[i].x),
                  minY |-> MathMin(acc.minY, pts[i].y),
                  maxY |-> MathMax(acc.maxY, pts[i].y)])

\* boxOf giving the larger extent as both the width and the height.
boxOfSquare(b) ==
    [minX |-> b.minX, maxX |-> b.maxX, minY |-> b.minY, maxY |-> b.maxY,
     width |-> MathMax(Sub(b.maxX, b.minX), Sub(b.maxY, b.minY)),
     height |-> MathMax(Sub(b.maxX, b.minX), Sub(b.maxY, b.minY))]

\* The returned record, from the four extremes the loop found.
boxOf(b) ==
    [minX |-> b.minX, maxX |-> b.maxX, minY |-> b.minY, maxY |-> b.maxY,
     width |-> Sub(b.maxX, b.minX), height |-> Sub(b.maxY, b.minY)]

getPathBoundingBox(pts) ==
    IF Len(pts) = 0
    THEN [minX |-> Fin(0), maxX |-> Fin(0), minY |-> Fin(0), maxY |-> Fin(0),
          width |-> Fin(0), height |-> Fin(0)]
    ELSE boxOf(boxFold(pts, 1, [minX |-> PInf, maxX |-> NInf,
                                minY |-> PInf, maxY |-> NInf]))

---------------------------------------------------------------------------
(* calculateAngle and calculateCurvature.  Angles are in degrees.  The     *)
(* arctangent is given for the vectors that point in one of the eight      *)
(* compass directions, where the double-precision result of                *)
(* Math.atan2(dy, dx) * 180 / Math.PI is the exact multiple of 45; the     *)
(* paths measured below move in these directions only.                     *)

\* (Math.atan2(dy, dx) * 180) / Math.PI for integers dy and dx, not both 0
compassDegrees(dy, dx) ==
    CASE dy = 0 /\ dx > 0 -> 0
      [] dy > 0 /\ dx = dy -> 45
      [] dy > 0 /\ dx = 0 -> 90
      [] dy > 0 /\ dx = -dy -> 135
      [] dy = 0 /\ dx < 0 -> 180
      [] dy < 0 /\ dx = dy -> -135
      [] dy < 0 /\ dx = 0 -> -90
      [] dy < 0 /\ dx = -dy -> -45

\* The same for two numbers: NaN if either is NaN.
atan2Degrees(dy, dx) ==
    IF isNaN(dy) \/ isNaN(dx) THEN NaN
    ELSE Fin(compassDegrees(dy.n * dx.d, dx.n * dy.d))

\* The guard of calculateAngle: a point is missing, or a coordinate is not a
\* number or is NaN.
angleGuard(p1, p2) ==
    \/ ~p1.present \/ ~p2.present
    \/ ~IsNumber(p1.x) \/ ~IsNumber(p1.y) \/ ~IsNumber(p2.x) \/ ~IsNumber(p2.y)
    \/ isNaN(p1.x) \/ isNaN(p1.y) \/ isNaN(p2.x) \/ isNaN(p2.y)

calculateAngle(p1, p2) ==
    IF angleGuard(p1, p2) THEN Fin(0)
    ELSE IF StrictEq(p1.x, p2.x) /\ StrictEq(p1.y, p2.y) THEN Fin(0)
    ELSE atan2Degrees(Sub(p2.y, p1.y), Sub(p2.x, p1.x))

\* The pair of angles is skipped (continue).
skipsAngles(angle1, angle2) ==
    isNaN(angle1) \/ isNaN(angle2) \/ ~isFinite(angle1) \/ ~isFinite(angle2)

\* wrapAngle without the wrap.
wrapAngleNever(angleDiff) == angleDiff

\* if (angleDiff > 180) angleDiff = 360 - angleDiff
wrapAngle(angleDiff) ==
    IF Gt(angleDiff, Fin(180)) THEN Sub(Fin(360), angleDiff) ELSE angleDiff

\* angleDiff, as it is added to totalAngleChange
angleDiffOf(angle1, angle2) == wrapAngle(MathAbs(Sub(angle2, angle1)))

\* The loop over the interior points (the code's i is i - 1 here).
RECURSIVE curvatureFold(_, _, _, _)
curvatureFold(pts, i, totalAngleChange, validAngles) ==
    IF i > Len(pts) - 1
    THEN [totalAngleChange |-> totalAngleChange, validAngles |-> validAngles]
    ELSE IF skipsAngles(calculateAngle(pts[i - 1], pts[i]),
                        calculateAngle(pts[i], pts[i + 1]))
         THEN curvatureFold(pts, i + 1, totalAngleChange, validAngles)
         ELSE curvatureFold(pts, i + 1,
                  Add(totalAngleChange,
                      angleDiffOf(calculateAngle(pts[i - 1], pts[i]),
                                  calculateAngle(pts[i], pts[i + 1]))),
                  validAngles + 1)

\* validAngles > 0 ? totalAngleChange / validAngles : 0
curvatureOf(acc) ==
    IF acc.validAngles > 0 THEN Div(acc.totalAngleChange, Fin(acc.validAngles))
    ELSE Fin(0)

calculateCurvature(pts) ==
    IF Len(pts) < 3 THEN Fin(0)
    ELSE curvatureOf(curvatureFold(pts, 2, Fin(0), 0))

---------------------------------------------------------------------------
(* simplifyPath.  The points of a path are distinct objects, so the        *)
(* identity test result[last] !== path[last] compares positions: the       *)
(* retained points are kept as indices into the path.                      *)

\* Math.sqrt(s) > tolerance, for s = dx * dx + dy * dy and an integer tolerance
rootExceeds(s, tolerance) ==
    IF isNaN(s) THEN FALSE
    ELSE IF s.k = "pinf" THEN TRUE
    ELSE IF tolerance < 0 THEN TRUE
    ELSE s.n > tolerance * tolerance * s.d

\* distance > tolerance, the distance being that of p from q
farther(p, q, tolerance) ==
    rootExceeds(Add(Sq(Sub(p.x, q.x)), Sq(Sub(p.y, q.y))), tolerance)

\* retained measuring each point from the one before it in the path.
RECURSIVE retainedFromPrevious(_, _, _, _, _)
retainedFromPrevious(pts, tolerance, i, lastPoint, kept) ==
    IF i > Len(pts) THEN kept
    ELSE IF farther(pts[i], pts[i - 1], tolerance)
         THEN retainedFromPrevious(pts, tolerance, i + 1, i, Append(kept, i))
         ELSE retainedFromPrevious(pts, tolerance, i + 1, lastPoint, kept)

RECURSIVE retained(_, _, _, _, _)
retained(pts, tolerance, i, lastPoint, kept) ==
    IF i > Len(pts) THEN kept
    ELSE IF farther(pts[i], pts[lastPoint], tolerance)
         THEN retained(pts, tolerance, i + 1, i, Append(kept, i))
         ELSE retained(pts, tolerance, i + 1, lastPoint, kept)

\* withLast without the push.
withLastNever(pts, kept) == kept

\* withLast comparing the coordinates of the two points, not the objects.
withLastByValue(pts, kept) ==
    IF Len(pts) > 1 /\ pts[kept[Len(kept)]] # pts[Len(pts)]
    THEN Append(kept, Len(pts))
    ELSE kept

\* The last point is pushed unless it is the last one retained.
withLast(pts, kept) ==
    IF Len(pts) > 1 /\ kept[Len(kept)] # Len(pts)
    THEN Append(kept, Len(pts))
    ELSE kept

\* The indices of pts that simplifyPath returns, for Len(pts) > 2.
simplifyIndices(pts, tolerance) ==
    withLast(pts, retained(pts, tolerance, 2, 1, <<1>>))

pick(pts, idx) == [j \in 1..Len(idx) |-> pts[idx[j]]]

\* The positions of pts that simplifyPath returns: all of them when the path
\* itself is returned.
simplifyKept(pts, tolerance) ==
    IF Len(pts) <= 2 THEN [j \in 1..Len(pts) |-> j]
    ELSE simplifyIndices(pts, tolerance)

simplifyPath(pts, tolerance) ==
    IF Len(pts) <= 2 THEN pts
    ELSE pick(pts, simplifyIndices(pts, tolerance))

---------------------------------------------------------------------------
(* normalizePath *)

\* normalizeIn dividing x by the height.
normalizeInByHeight(pts, bbox) ==
    IF IsZero(bbox.width) \/ IsZero(bbox.height) THEN pts
    ELSE [j \in 1..Len(pts) |->
             Pt(Div(Sub(pts[j].x, bbox.minX), bbox.height),
                Div(Sub(pts[j].y, bbox.minY), bbox.height))]

\* normalizeIn dividing by the maximum, not by the extent.
normalizeInByMax(pts, bbox) ==
    IF IsZero(bbox.width) \/ IsZero(bbox.height) THEN pts
    ELSE [j \in 1..Len(pts) |->
             Pt(Div(Sub(pts[j].x, bbox.minX), bbox.maxX),
                Div(Sub(pts[j].y, bbox.minY), bbox.maxY))]

\* normalizeIn returning the path only when width and height are both 0.
normalizeInBothZero(pts, bbox) ==
    IF IsZero(bbox.width) /\ IsZero(bbox.height) THEN pts
    ELSE [j \in 1..Len(pts) |->
             Pt(Div(Sub(pts[j].x, bbox.minX), bbox.width),
                Div(Sub(pts[j].y, bbox.minY), bbox.height))]

normalizeIn(pts, bbox) ==
    IF IsZero(bbox.width) \/ IsZero(bbox.height) THEN pts
    ELSE [j \in 1..Len(pts) |->
             Pt(Div(Sub(pts[j].x, bbox.minX), bbox.width),
                Div(Sub(pts[j].y, bbox.minY), bbox.height))]

normalizePath(pts) == normalizeIn(pts, getPathBoundingBox(pts))

---------------------------------------------------------------------------
(* extractFeatures.  Arrays are 0-based in the code and 1-based here: the  *)
(* code's index i is i + 1 below.  The curvature is not read by the        *)
(* scoring and is left out of the record.                                  *)

NoFeatures ==
    [ok |-> FALSE, firstDirection |-> "none", startY |-> NaN, midY |-> NaN,
     endY |-> NaN, aspectRatio |-> NaN, length |-> 0, normalizedPath |-> <<>>]

\* safePath without the filter.
safePathUnfiltered(pts) == pts

\* path.filter(...) of extractFeatures
safePath(pts) == SelectSeq(pts, isValidPoint)

\* Reading .x of an absent entry raises a TypeError.
derefThrows(pts) == \E i \in 1..Len(pts) : ~pts[i].present

\* firstThird ending one point early: floor((n - 1) / 3) points.
firstThirdShort(np) == SubSeq(np, 1, (Len(np) - 1) \div 3)

\* The three slices: indices [0, n/3), [n/3, 2n/3) and [2n/3, n) of the code.
firstThird(np) == SubSeq(np, 1, Len(np) \div 3)
middleThird(np) == SubSeq(np, (Len(np) \div 3) + 1, (2 * Len(np)) \div 3)
\* lastThird as long as firstThird.
lastThirdAsFirst(np) == SubSeq(np, (Len(np) - (Len(np) \div 3)) + 1, Len(np))

lastThird(np) == SubSeq(np, ((2 * Len(np)) \div 3) + 1, Len(np))

\* lastThird[0].x - firstThird[0].x > 0 ? "right" : "left"
directionOf(first, last) ==
    IF Gt(Sub(last[1].x, first[1].x), Fin(0)) THEN "right" ELSE "left"

\* aspectOf without the || 1.
aspectOfUnguarded(bbox) == Div(bbox.width, bbox.height)

\* bbox.width / (bbox.height || 1)
aspectOf(bbox) == Div(bbox.width, OrOne(bbox.height))

\* featuresOf reading midY one point early.
featuresOfMidEarly(np) ==
    IF Len(firstThird(np)) = 0 \/ Len(lastThird(np)) = 0 THEN NoFeatures
    ELSE [ok |-> TRUE,
          firstDirection |-> directionOf(firstThird(np), lastThird(np)),
          startY |-> np[1].y,
          midY |-> np[Len(np) \div 2].y,
          endY |-> np[Len(np)].y,
          aspectRatio |-> aspectOf(getPathBoundingBox(np)),
          length |-> Len(np),
          normalizedPath |-> np]

\* The features of a normalized path of at least MinSimplified points.
featuresOf(np) ==
    IF Len(firstThird(np)) = 0 \/ Len(lastThird(np)) = 0 THEN NoFeatures
    ELSE [ok |-> TRUE,
          firstDirection |-> directionOf(firstThird(np), lastThird(np)),
          startY |-> np[1].y,
          midY |-> np[(Len(np) \div 2) + 1].y,
          endY |-> np[Len(np)].y,
          aspectRatio |-> aspectOf(getPathBoundingBox(np)),
          length |-> Len(np),
          normalizedPath |-> np]

\* How far extractFeatures gets and what its locals hold there.
traceOf(sp, simp, norm, f) ==
    [safePath |-> sp, simplifiedPath |-> simp, normalizedPath |-> norm,
     features |-> f]

afterNormalize(sp, simp, norm) ==
    traceOf(sp, simp, norm,
            IF Len(norm) < MinSimplified THEN NoFeatures ELSE featuresOf(norm))

afterSimplify(sp, simp) ==
    IF Len(simp) < MinSimplified THEN traceOf(sp, simp, <<>>, NoFeatures)
    ELSE afterNormalize(sp, simp, normalizePath(simp))

\* afterFilter without the floor on the number of valid points.
afterFilterNoFloor(sp) ==
    IF derefThrows(sp) THEN traceOf(sp, <<>>, <<>>, NoFeatures)
    ELSE afterSimplify(sp, simplifyPath(sp, DefaultTolerance))

\* A raise inside the try block is caught and null returned.
afterFilter(sp) ==
    IF Len(sp) < MinPoints \/ derefThrows(sp)
    THEN traceOf(sp, <<>>, <<>>, NoFeatures)
    ELSE afterSimplify(sp, simplifyPath(sp, DefaultTolerance))

extractTrace(pts) ==
    IF Len(pts) < MinPoints THEN traceOf(<<>>, <<>>, <<>>, NoFeatures)
    ELSE afterFilter(safePath(pts))

extractFeatures(pts) == extractTrace(pts).features

---------------------------------------------------------------------------
(* recognizeSymbol *)

\* The three points the scoring reads.
firstPoint(f) == f.normalizedPath[1]
midPoint(f) == f.normalizedPath[(Len(f.normalizedPath) \div 2) + 1]
lastPoint(f) == f.normalizedPath[Len(f.normalizedPath)]

\* gateOpen without the upper limit.
gateOpenNoUpper(f) == Gt(f.aspectRatio, Rat(1, 2))

\* features.aspectRatio > 0.5 && features.aspectRatio < 2.0
gateOpen(f) == Gt(f.aspectRatio, Rat(1, 2)) /\ Lt(f.aspectRatio, Fin(2))

\* apexRight with || for &&.
apexRightEither(first, mid, last) == Gt(mid.x, first.x) \/ Gt(mid.x, last.x)

\* apexRight with >= for >.
apexRightOrTie(first, mid, last) ==
    /\ Gt(mid.x, first.x) \/ (~Lt(mid.x, first.x) /\ ~isNaN(mid.x) /\ ~isNaN(first.x))
    /\ Gt(mid.x, last.x) \/ (~Lt(mid.x, last.x) /\ ~isNaN(mid.x) /\ ~isNaN(last.x))

\* midPoint.x > firstPoint.x && midPoint.x > lastPoint.x
apexRight(first, mid, last) == Gt(mid.x, first.x) /\ Gt(mid.x, last.x)

\* midPoint.x < firstPoint.x && midPoint.x < lastPoint.x
apexLeft(first, mid, last) == Lt(mid.x, first.x) /\ Lt(mid.x, last.x)

\* midPoint.y > firstPoint.y && midPoint.y > lastPoint.y
dip(first, mid, last) == Gt(mid.y, first.y) /\ Gt(mid.y, last.y)

\* level with <= for <.
levelInclusive(first, last) ==
    ~Gt(MathAbs(Sub(first.y, last.y)), Rat(3, 10))
        /\ ~isNaN(Sub(first.y, last.y))

\* Math.abs(firstPoint.y - lastPoint.y) < 0.3
level(first, last) == Lt(MathAbs(Sub(first.y, last.y)), Rat(3, 10))

\* The points a symbol gets once its apex check passed.
apexScore(first, mid, last) ==
    ApexPoints + (IF dip(first, mid, last) THEN DipPoints ELSE 0)
               + (IF level(first, last) THEN LevelPoints ELSE 0)

scoresAt(first, mid, last) ==
    [gt |-> IF apexRight(first, mid, last)
            THEN apexScore(first, mid, last) ELSE 0,
     lt |-> IF apexLeft(first, mid, last)
            THEN apexScore(first, mid, last) ELSE 0]

\* scores without the aspect-ratio gate.
scoresUngated(f) == scoresAt(firstPoint(f), midPoint(f), lastPoint(f))

\* scores[">"] and scores["<"]
scores(f) ==
    IF ~gateOpen(f) THEN [gt |-> 0, lt |-> 0]
    ELSE scoresAt(firstPoint(f), midPoint(f), lastPoint(f))

\* One pass of the loop over Object.entries(scores): a score must be strictly
\* above the best so far to take over.
take(b, symbol, score) ==
    IF score > b.maxScore
    THEN [maxScore |-> score, recognizedSymbol |-> symbol]
    ELSE b

\* The loop: ">" first, then "<".
best(sc) ==
    take(take([maxScore |-> 0, recognizedSymbol |-> "="], ">", sc.gt),
         "<", sc.lt)

MathMinInt(a, b) == IF a < b THEN a ELSE b

\* The result, from the best score.
resultOf(b) ==
    IF b.maxScore < ApexPoints THEN [symbol |-> "=", confidence |-> 0]
    ELSE [symbol |-> b.recognizedSymbol,
          confidence |-> MathMinInt(MaxConfidence, b.maxScore)]

\* classify without the null check: reading features.aspectRatio of null
\* raises, and the catch returns "Error".
classifyNoNullCheck(f) ==
    IF ~f.ok THEN [symbol |-> "Error", confidence |-> 0]
    ELSE resultOf(best(scores(f)))

\* The try block of recognizeSymbol.  Once features is non-null nothing in it
\* can raise (the three points it reads exist), so the catch that returns
\* "Error" is not taken.
classify(f) ==
    IF ~f.ok THEN [symbol |-> "=", confidence |-> 0]
    ELSE resultOf(best(scores(f)))

\* recognizeSymbol as it is in app/index.tsx: symbol and confidence.
recognizeSymbol(pts) ==
    IF Len(pts) < MinPoints THEN [symbol |-> "=", confidence |-> 0]
    ELSE classify(extractFeatures(pts))

\* recognizeSymbol as it is in utils/symbolUtils.ts: the same steps, and a
\* result that holds the symbol only.
symbolOnly(r) == [symbol |-> r.symbol]

recognizeSymbolUtils(pts) == symbolOnly(recognizeSymbol(pts))

---------------------------------------------------------------------------
(* The strokes the model draws *)

\* the longest captured path
MaxLen == 6

\* A point of the polyline (0,0) -> (50,50) -> (0,100) at height t, of its
\* mirror image (50,0) -> (0,50) -> (50,100), and of the diagonal
\* (0,0) -> (100,100).
TraceA(t) == P(IF t <= 50 THEN t ELSE 100 - t, t)
TraceB(t) == P(IF t <= 50 THEN 50 - t ELSE t - 50, t)
Diagonal(t) == P(t, t)
\* The heights sampled on the two polylines: the three vertices, points within
\* the tolerance of each of them, and the middle of both legs.
TraceHeights == {0, 2, 25, 48, 50, 52, 75, 98, 100}
\* The heights sampled on the diagonal: evenly spaced.
DiagonalHeights == {0, 25, 50, 75, 100}

\* Strokes sampled in order along a fixed line.
Traces == {"traceA", "traceB", "diagonal"}
\* Strokes of any shape over a few points.
Families == {"grid", "absent", "nan", "infinite"} \cup Traces

\* The entries a stroke of each family is made of.
Entries(fam) ==
    CASE fam = "grid" -> {P(0, 0), P(10, 10), P(0, 3), P(10, 0)}
      [] fam = "absent" -> {P(0, 0), P(10, 10), Absent, Pt(Fin(0), Undef)}
      [] fam = "nan" -> {P(0, 0), P(10, 10), Pt(NaN, Fin(10)), Pt(Fin(0), NaN)}
      [] fam = "infinite" ->
             {P(0, 0), P(10, 10), Pt(Fin(10), PInf), Pt(NInf, Fin(0)),
              Pt(NaN, Fin(10))}
      [] fam = "traceA" -> {TraceA(t) : t \in TraceHeights}
      [] fam = "traceB" -> {TraceB(t) : t \in TraceHeights}
      [] fam = "diagonal" -> {Diagonal(t) : t \in DiagonalHeights}

\* A trace is sampled in order along its line: the height never decreases.
InOrder(fam, pts, e) ==
    fam \in Traces /\ Len(pts) > 0 => ~Lt(e.y, pts[Len(pts)].y)

\* The screen as it is mounted.
ScreenMounted ==
    /\ currentSymbol = ""
    /\ paths = <<>>
    /\ shouldClearOnNextDraw = FALSE
    /\ rawPath = <<>>
    /\ invoked = <<>>
    /\ gestures = 0

\* No stage has been called yet.
NothingComputed ==
    /\ safe = <<>>
    /\ simplified = <<>>
    /\ normalized = <<>>
    /\ features = NoFeatures
    /\ result = [symbol |-> "", confidence |-> 0]
    /\ utilsResult = [symbol |-> ""]
    /\ givenTolerance = DefaultTolerance
    /\ keptAt = <<>>
    /\ returned = <<>>
    /\ curvature = Fin(0)

\* Nothing has run yet.
NothingRun ==
    /\ pc = "drawing"
    /\ NothingComputed
    /\ ScreenMounted

Init ==
    /\ family \in Families
    /\ path = <<>>
    /\ NothingRun

\* One more entry is captured (Canvas onStart / onUpdate).
Capture(e) ==
    /\ pc = "drawing"
    /\ Len(path) < MaxLen
    /\ InOrder(family, path, e)
    /\ path' = Append(path, e)
    /\ UNCHANGED <<family, pc, pipelineVars, callVars, screenVars>>

\* What the call left in extractFeatures' locals.
Traced(tr) ==
    /\ safe' = tr.safePath
    /\ simplified' = tr.simplifiedPath
    /\ normalized' = tr.normalizedPath
    /\ features' = tr.features

\* Recognize with the stages working on the caller's array: the path is left
\* filtered, simplified and normalized.
RecognizeInPlace ==
    /\ pc = "drawing"
    /\ Traced(extractTrace(path))
    /\ result' = recognizeSymbol(path)
    /\ utilsResult' = recognizeSymbolUtils(path)
    /\ pc' = "done"
    /\ path' = extractTrace(path).normalizedPath
    /\ UNCHANGED <<family, callVars, screenVars>>

\* The stroke ends and recognizeSymbol runs on the captured path.
Recognize ==
    /\ pc = "drawing"
    /\ Traced(extractTrace(path))
    /\ result' = recognizeSymbol(path)
    /\ utilsResult' = recognizeSymbolUtils(path)
    /\ pc' = "done"
    /\ UNCHANGED <<family, path, callVars, screenVars>>

Next ==
    \/ \E e \in Entries(family) : Capture(e)
    \/ Recognize

Spec == Init /\ [][Next]_vars

---------------------------------------------------------------------------
(* Direct calls of the stages.  A path starts at the origin and goes on in *)
(* steps of at most one unit along each axis (a step of no length repeats  *)
(* the point); it is then handed to one of simplifyPath, normalizePath and *)
(* calculateCurvature.                                                     *)

\* the most steps of a path
MaxSteps == 4
\* what a step adds to x and to y
Steps == {-1, 0, 1}
\* the tolerances simplifyPath is called with
Tolerances == {-1, 0, 1, 2}

CallInit ==
    /\ family = "steps"
    /\ path \in {<<>>, <<P(0, 0)>>}
    /\ NothingRun

\* The next sample of the path.
Step(dx, dy) ==
    /\ pc = "drawing"
    /\ Len(path) > 0
    /\ Len(path) <= MaxSteps
    /\ path' = Append(path, P(path[Len(path)].x.n + dx, path[Len(path)].y.n + dy))
    /\ UNCHANGED <<family, pc, pipelineVars, callVars, screenVars>>

\* simplifyPath(path, t)
CallSimplify(t) ==
    /\ pc = "drawing"
    /\ givenTolerance' = t
    /\ keptAt' = simplifyKept(path, t)
    /\ returned' = simplifyPath(path, t)
    /\ pc' = "simplifyPath"
    /\ UNCHANGED <<family, path, pipelineVars, curvature, screenVars>>

\* normalizePath(path)
CallNormalize ==
    /\ pc = "drawing"
    /\ returned' = normalizePath(path)
    /\ pc' = "normalizePath"
    /\ UNCHANGED <<family, path, pipelineVars, givenTolerance, keptAt, curvature,
                   screenVars>>

\* calculateCurvature(path)
CallCurvature ==
    /\ pc = "drawing"
    /\ curvature' = calculateCurvature(path)
    /\ pc' = "calculateCurvature"
    /\ UNCHANGED <<family, path, pipelineVars, givenTolerance, keptAt, returned,
                   screenVars>>

CallNext ==
    \/ \E dx \in Steps, dy \in Steps : Step(dx, dy)
    \/ \E t \in Tolerances : CallSimplify(t)
    \/ CallNormalize
    \/ CallCurvature

CallSpec == CallInit /\ [][CallNext]_vars

---------------------------------------------------------------------------
(* The screen of part_002 driven by Canvas.  A gesture starts (onStart),   *)
(* is updated (onUpdate) and ends (onEnd); Canvas hands a path to the      *)
(* screen's handleGestureEnd, which calls recognizeSymbol of               *)
(* utils/symbolUtils.ts.  The state setters of one callback are taken      *)
(* together: the screen is rendered again before the next callback runs.   *)

\* the most points of a gesture
MaxStroke == 5
\* the most gestures
MaxGestures == 2

\* The gestures of a run report points of one of these kinds.
ScreenFamilies == {"screenFinite", "screenInfinite", "screenNaN"}

\* The points (e.x, e.y) the gesture events report.
Events(fam) ==
    CASE fam = "screenFinite" -> {P(0, 0), P(10, 10)}
      [] fam = "screenInfinite" -> {P(0, 0), Pt(Fin(10), PInf)}
      [] fam = "screenNaN" -> {P(0, 0), Pt(NaN, Fin(10))}

\* What the screen shows and keeps.
screen(symbol, saved, clearNext, calls) ==
    [currentSymbol |-> symbol, paths |-> saved,
     shouldClearOnNextDraw |-> clearNext, invoked |-> calls]

\* autoClearCanvas
autoClearCanvas(scr) == screen("", <<>>, FALSE, scr.invoked)

\* handleGestureStart that never clears.
handleGestureStartKeeps(scr) == scr

\* handleGestureStart
handleGestureStart(scr) ==
    IF scr.shouldClearOnNextDraw THEN autoClearCanvas(scr) ELSE scr

\* rawPath.filter(...).map(...) of Canvas.onEnd
pathCopyOf(raw) == SelectSeq(raw, isValidPoint)

\* pathCopy.some((p) => !isFinite(p.x) || !isFinite(p.y))
someNotFinite(pts) ==
    \E i \in 1..Len(pts) : ~isFinite(pts[i].x) \/ ~isFinite(pts[i].y)

\* handedOver passing the path on whatever its points are.
handedOverUnchecked(pathCopy) == pathCopy

\* What Canvas.onEnd calls onGestureEnd with.
handedOver(pathCopy) ==
    IF Len(pathCopy) >= MinPoints /\ someNotFinite(pathCopy) THEN <<>>
    ELSE pathCopy

\* isRecognized without "=".
isRecognizedApexOnly(symbol) == symbol \in {">", "<"}

\* result.symbol === ">" || result.symbol === "<" || result.symbol === "="
isRecognized(symbol) == symbol \in {">", "<", "="}

\* The branch of handleGestureEnd that calls recognizeSymbol, res being what
\* the call returned.
afterRecognition(scr, p, res) ==
    screen(res.symbol, Append(scr.paths, p),
           scr.shouldClearOnNextDraw \/ isRecognized(res.symbol),
           Append(scr.invoked, p))

\* handleGestureEnd that calls recognizeSymbol for a path of any length.
handleGestureEndAlways(scr, p) ==
    afterRecognition(scr, p, recognizeSymbolUtils(p))

\* handleGestureEnd.  recognizeSymbol catches what it raises, so the catch
\* that displays "Error" is not taken.
handleGestureEnd(scr, p) ==
    IF Len(p) >= MinPoints
    THEN IF someNotFinite(p)
         THEN screen("Invalid input", Append(scr.paths, p),
                     scr.shouldClearOnNextDraw, scr.invoked)
         ELSE afterRecognition(scr, p, recognizeSymbolUtils(p))
    ELSE IF Len(p) > 0
         THEN screen("Too short", Append(scr.paths, p),
                     scr.shouldClearOnNextDraw, scr.invoked)
         ELSE scr

\* The screen as the variables hold it, before any call of this gesture end.
shown == screen(currentSymbol, paths, shouldClearOnNextDraw, <<>>)

\* The screen is rendered again.
Rendered(scr) ==
    /\ currentSymbol' = scr.currentSymbol
    /\ paths' = scr.paths
    /\ shouldClearOnNextDraw' = scr.shouldClearOnNextDraw
    /\ invoked' = scr.invoked

ScreenInit ==
    /\ family \in ScreenFamilies
    /\ path = <<>>
    /\ pc = "idle"
    /\ NothingComputed
    /\ ScreenMounted

\* Canvas.onStart: the screen's handler first, then the new path.
GestureStart(e) ==
    /\ pc = "idle"
    /\ gestures < MaxGestures
    /\ Rendered(handleGestureStart(screen(currentSymbol, paths,
                                          shouldClearOnNextDraw, invoked)))
    /\ path' = <<e>>
    /\ pc' = "drawing"
    /\ UNCHANGED <<family, pipelineVars, callVars, rawPath, gestures>>

\* Canvas.onUpdate: an event with a NaN coordinate adds nothing.
GestureUpdate(e) ==
    /\ pc = "drawing"
    /\ Len(path) < MaxStroke
    /\ path' = IF ~isNaN(e.x) /\ ~isNaN(e.y) THEN Append(path, e) ELSE path
    /\ UNCHANGED <<family, pc, pipelineVars, callVars, screenVars>>

\* Canvas.onEnd and the screen's handleGestureEnd.
GestureEnd ==
    /\ pc = "drawing"
    /\ Len(path) > 0
    /\ rawPath' = path
    /\ path' = <<>>
    /\ Rendered(handleGestureEnd(shown, handedOver(pathCopyOf(path))))
    /\ gestures' = gestures + 1
    /\ pc' = "idle"
    /\ UNCHANGED <<family, pipelineVars, callVars>>

ScreenNext ==
    \/ \E e \in Events(family) : GestureStart(e)
    \/ \E e \in Events(family) : GestureUpdate(e)
    \/ GestureEnd

ScreenSpec == ScreenInit /\ [][ScreenNext]_vars

---------------------------------------------------------------------------
(* Vocabulary of the properties, stated on the raw entries and on what the *)
(* call left behind, independently of the operators above.                 *)

Done == pc = "done"

\* An entry that is there and whose x and y are numbers other than NaN.
WellFormed(e) ==
    /\ e.present
    /\ e.x.k \in {"fin", "pinf", "ninf"}
    /\ e.y.k \in {"fin", "pinf", "ninf"}

\* The positions of the well-formed entries of a path.
ValidAt(pts) == {i \in 1..Len(pts) : WellFormed(pts[i])}

\* Numbers that compare equal (NaN equals nothing).
NumEq(a, b) == ~isNaN(a) /\ ~isNaN(b) /\ ~Lt(a, b) /\ ~Lt(b, a)

\* The first, middle and last point of the normalized path.
NFirst == normalized[1]
NMid == normalized[(Len(normalized) \div 2) + 1]
NLast == normalized[Len(normalized)]

\* The aspect ratio lies strictly between 0.5 and 2.0.
InsideGate == Gt(features.aspectRatio, Rat(1, 2)) /\ Lt(features.aspectRatio, Fin(2))

\* The middle point is to the right (left) of both ends.
MidRightmost == Gt(NMid.x, NFirst.x) /\ Gt(NMid.x, NLast.x)
MidLeftmost == Lt(NMid.x, NFirst.x) /\ Lt(NMid.x, NLast.x)
\* The middle point is below both ends (y grows downwards).
MidLowest == Gt(NMid.y, NFirst.y) /\ Gt(NMid.y, NLast.y)
\* The ends are less than 0.3 apart in height.
EndsLevel == Lt(MathAbs(Sub(NFirst.y, NLast.y)), Rat(3, 10))

Unrecognized == [symbol |-> "=", confidence |-> 0]

---------------------------------------------------------------------------
(* C1 *)

\* C1: an input with fewer than 5 valid points (fewer than 5 entries, or fewer
\* than 5 left once the absent, non-numeric and NaN entries are removed) is
\* classified "=" with confidence 0, whatever its shape.
C1_FewValidPoints ==
    Done /\ Cardinality(ValidAt(path)) < MinPoints
        => result = Unrecognized /\ utilsResult.symbol = "="

\* At least 5 entries, only 4 of them valid, and those 4 make a path that
\* simplification leaves long enough to be scored.
C1_Witness ==
    /\ Done
    /\ Len(path) >= MinPoints
    /\ Cardinality(ValidAt(path)) = MinPoints - 1
    /\ Len(simplifyPath(safe, DefaultTolerance)) >= MinSimplified
    /\ result = Unrecognized

---------------------------------------------------------------------------
(* C2 *)

\* C2: for every input, malformed, NaN and infinite entries included,
\* recognizeSymbol returns a symbol of {">", "<", "="}, never "Error".
C2_SymbolInSet ==
    Done => /\ result.symbol \in {">", "<", "="}
            /\ utilsResult.symbol \in {">", "<", "="}

\* An input with an absent entry or an infinite coordinate that went through
\* the whole of extractFeatures.
C2_Witness ==
    /\ Done
    /\ features.ok
    /\ \E i \in 1..Len(path) :
          ~path[i].present \/ path[i].x.k = "ninf" \/ path[i].y.k = "pinf"
    /\ result.symbol \in {">", "<", "="}

---------------------------------------------------------------------------
(* C3 *)

\* C3: when features are extracted and the aspect ratio is strictly inside
\* (0.5, 2.0), the symbol is ">" exactly when the middle point's x exceeds
\* both ends' x, "<" exactly when it is below both, and "=" otherwise; the two
\* never hold together, and a middle x that ties an end's x gives "=".
C3_ApexDecides ==
    Done /\ features.ok /\ InsideGate
        => /\ (result.symbol = ">") <=> MidRightmost
           /\ (result.symbol = "<") <=> MidLeftmost
           /\ (result.symbol = "=") <=> (~MidRightmost /\ ~MidLeftmost)
           /\ ~(MidRightmost /\ MidLeftmost)
           /\ (NumEq(NMid.x, NFirst.x) \/ NumEq(NMid.x, NLast.x))
                  => result.symbol = "="
           /\ utilsResult.symbol = result.symbol

\* The middle point ties one end and is beyond the other.
C3_Witness ==
    /\ Done
    /\ features.ok
    /\ InsideGate
    /\ NumEq(NMid.x, NFirst.x)
    /\ Gt(NMid.x, NLast.x)
    /\ result.symbol = "="

---------------------------------------------------------------------------
(* C4 *)

\* C4: a ">" or "<" result carries the confidence min(100, 40 + 30 if the
\* middle point is below both ends + 30 if the ends are less than 0.3 apart in
\* height), so 40, 70 or 100; any other result is "=" with confidence 0.
C4_Confidence ==
    Done =>
        IF result.symbol \in {">", "<"}
        THEN /\ features.ok
             /\ result.confidence =
                    MathMinInt(100, 40 + (IF MidLowest THEN 30 ELSE 0)
                                       + (IF EndsLevel THEN 30 ELSE 0))
             /\ result.confidence \in {40, 70, 100}
        ELSE result = Unrecognized

\* A dip with the ends exactly 0.3 apart: 70, not 100.
C4_Witness ==
    /\ Done
    /\ result.symbol \in {">", "<"}
    /\ MidLowest
    /\ NumEq(MathAbs(Sub(NFirst.y, NLast.y)), Rat(3, 10))
    /\ result.confidence = 70

---------------------------------------------------------------------------
(* C5 *)

\* C5: when the aspect ratio is not strictly between 0.5 and 2.0, both scores
\* stay 0 and the result is "=" with confidence 0, wherever the first, middle
\* and last points lie.
C5_GateClosed ==
    Done /\ features.ok /\ ~InsideGate
        => /\ scores(features) = [gt |-> 0, lt |-> 0]
           /\ result = Unrecognized
           /\ utilsResult.symbol = "="

\* The gate is closed on a path whose middle point is to the right of both ends.
C5_Witness ==
    /\ Done
    /\ features.ok
    /\ ~InsideGate
    /\ MidRightmost
    /\ result = Unrecognized

---------------------------------------------------------------------------
(* C6 *)

\* The path holds the three vertices of its polyline.
HasVertices(pts, vertex(_)) ==
    \A t \in {0, 50, 100} : \E i \in 1..Len(pts) : pts[i] = vertex(t)

\* No two successive samples are the same point.
NoRepeat(pts) == \A i \in 1..(Len(pts) - 1) : pts[i] # pts[i + 1]

\* A sampling of at least 5 points of one of the two polylines, vertices included.
SampledA == family = "traceA" /\ Len(path) >= MinPoints /\ HasVertices(path, TraceA)
SampledB == family = "traceB" /\ Len(path) >= MinPoints /\ HasVertices(path, TraceB)

\* C6 as stated: every sampling in order of (0,0) -> (50,50) -> (0,100), of at
\* least 5 points and holding the three vertices, is classified ">" with
\* confidence >= 40, and every such sampling of (50,0) -> (0,50) -> (50,100)
\* is classified "<" with confidence >= 40.
C6_EverySampling ==
    /\ Done /\ SampledA => result.symbol = ">" /\ result.confidence >= 40
    /\ Done /\ SampledB => result.symbol = "<" /\ result.confidence >= 40

\* C6 for the samplings that never repeat a point.
C6_DistinctSamples ==
    /\ Done /\ SampledA /\ NoRepeat(path)
           => result.symbol = ">" /\ result.confidence >= 40 /\ utilsResult.symbol = ">"
    /\ Done /\ SampledB /\ NoRepeat(path)
           => result.symbol = "<" /\ result.confidence >= 40 /\ utilsResult.symbol = "<"

---------------------------------------------------------------------------
(* C7 *)

\* Every entry is a point with finite coordinates.
AllFinite(pts) ==
    \A i \in 1..Len(pts) :
        pts[i].present /\ pts[i].x.k = "fin" /\ pts[i].y.k = "fin"

\* The x-coordinates never decrease, or never increase, along the path.
MonotoneX(pts) ==
    \/ \A i \in 1..(Len(pts) - 1) : ~Lt(pts[i + 1].x, pts[i].x)
    \/ \A i \in 1..(Len(pts) - 1) : ~Gt(pts[i + 1].x, pts[i].x)

\* C7: a path of at least 5 points whose x-coordinates are monotone along the
\* stroke (the evenly sampled diagonal (0,0) -> (100,100) for one) fails both
\* apex checks and is classified "=" with confidence 0, also when the
\* aspect-ratio gate lets it through.
C7_MonotoneX ==
    Done /\ Len(path) >= MinPoints /\ AllFinite(path) /\ MonotoneX(path)
        => /\ result = Unrecognized
           /\ utilsResult.symbol = "="
           /\ features.ok => ~MidRightmost /\ ~MidLeftmost

\* The five evenly spaced samples of the diagonal, let through by the gate.
C7_Witness ==
    /\ Done
    /\ path = <<P(0, 0), P(25, 25), P(50, 50), P(75, 75), P(100, 100)>>
    /\ features.ok
    /\ InsideGate
    /\ result = Unrecognized

---------------------------------------------------------------------------
(* C8 *)

\* How many well-formed entries the path holds up to position i.
Rank(pts, i) == Cardinality({j \in ValidAt(pts) : j <= i})

\* C8: the validation step of extractFeatures returns exactly the entries that
\* are present with numeric, non-NaN x and y, in their original order: the
\* k-th entry it keeps is the k-th well-formed entry of the input, nothing
\* else is removed, and the step does not fail.
C8_Validation ==
    Done /\ Len(path) >= MinPoints
        => /\ Len(safe) = Cardinality(ValidAt(path))
           /\ \A i \in ValidAt(path) : safe[Rank(path, i)] = path[i]

\* Entries are dropped from the front, the middle and the end, and an entry
\* with an infinite coordinate is kept.
C8_Witness ==
    /\ Done
    /\ Len(path) = MaxLen
    /\ ~WellFormed(path[1])
    /\ ~WellFormed(path[3])
    /\ ~WellFormed(path[MaxLen])
    /\ Len(safe) = MaxLen - 3
    /\ \E i \in 1..Len(safe) : safe[i].y.k = "pinf"

---------------------------------------------------------------------------
(* C9 *)

\* Every coordinate of every point is finite.
FiniteCoordinates(pts) ==
    \A i \in 1..Len(pts) : isFinite(pts[i].x) /\ isFinite(pts[i].y)

\* No point is absent and no coordinate is non-numeric or NaN.
NumericCoordinates(pts) == \A i \in 1..Len(pts) : WellFormed(pts[i])

\* C9 as stated: every point with a non-finite (NaN, +Infinity, -Infinity) or
\* missing coordinate is dropped before simplification, so no later stage sees
\* a non-finite coordinate.
C9_NonFiniteDropped ==
    Done => /\ FiniteCoordinates(safe)
            /\ FiniteCoordinates(simplified)
            /\ FiniteCoordinates(normalized)

\* C9 amended: every entry that is absent or has a non-numeric or NaN
\* coordinate is dropped before simplification, so what simplifyPath takes and
\* returns holds only numeric, non-NaN coordinates (infinite ones included).
C9_NaNDropped ==
    Done => /\ NumericCoordinates(safe)
            /\ NumericCoordinates(simplified)
            /\ Len(path) >= MinPoints
                   => \A i \in 1..Len(path) :
                          WellFormed(path[i]) <=> \E j \in 1..Len(safe) : safe[j] = path[i]

\* A NaN entry was dropped, an infinite coordinate was not and is part of the
\* simplified path the features were extracted from.
C9_Witness ==
    /\ Done
    /\ features.ok
    /\ Len(safe) < Len(path)
    /\ NumericCoordinates(simplified)
    /\ ~FiniteCoordinates(simplified)

---------------------------------------------------------------------------
(* C10 *)

\* The path without its absent, non-numeric and NaN entries.
RECURSIVE Cleaned(_)
Cleaned(pts) ==
    IF pts = <<>> THEN <<>>
    ELSE IF WellFormed(Head(pts)) THEN <<Head(pts)>> \o Cleaned(Tail(pts))
    ELSE Cleaned(Tail(pts))

\* C10: recognizeSymbol gives the same result on a path and on the path with
\* its absent, non-numeric and NaN entries removed.
C10_SameAsCleaned ==
    Done => /\ result = recognizeSymbol(Cleaned(path))
            /\ utilsResult = recognizeSymbolUtils(Cleaned(path))

\* A path with a malformed entry among at least 5 valid points is classified
\* ">" on the valid ones.
C10_Witness ==
    /\ Done
    /\ \E i \in 1..Len(path) : ~WellFormed(path[i])
    /\ Len(Cleaned(path)) >= MinPoints
    /\ result.symbol = ">"
    /\ result = recognizeSymbol(Cleaned(path))

---------------------------------------------------------------------------
(* C11 *)

\* A direct call of simplifyPath has returned.
Simplified == pc = "simplifyPath"

\* C11: for every path and every tolerance, simplifyPath returns no more
\* points than it was given, the first of them the input's first point and
\* the last of them the input's last point; an input of at most 2 points is
\* returned as it is.
C11_Endpoints ==
    Simplified
        => /\ Len(returned) <= Len(path)
           /\ Len(returned) = Len(keptAt)
           /\ Len(path) > 0
                  => /\ keptAt[1] = 1
                     /\ returned[1] = path[1]
                     /\ keptAt[Len(keptAt)] = Len(path)
                     /\ returned[Len(returned)] = path[Len(path)]
           /\ Len(path) <= 2 => returned = path

\* Points were dropped, and the last point is there although it repeats the
\* point returned before it.
C11_Witness ==
    /\ Simplified
    /\ Len(path) = MaxSteps + 1
    /\ Len(returned) = 3
    /\ returned[3] = path[Len(path)]
    /\ returned[2] = returned[3]

---------------------------------------------------------------------------
(* C12 *)

\* Two points of integer coordinates are more than t apart.
Apart(p, q, t) ==
    \/ t < 0
    \/ (p.x.n - q.x.n) * (p.x.n - q.x.n) + (p.y.n - q.y.n) * (p.y.n - q.y.n) > t * t

\* The positions a call returned, and the last of them before position i.
KeptSet == {keptAt[j] : j \in 1..Len(keptAt)}
Before(i) == CHOOSE j \in KeptSet : j < i /\ \A k \in KeptSet : k < i => k <= j

\* C12: for a path longer than 2, simplifyPath returns the first point, then
\* each later point that is more than the tolerance away from the point
\* returned last before it, in order, and at the end the original last
\* point, once, whether or not it is that far away.
C12_GreedyScan ==
    Simplified /\ Len(path) > 2
        => /\ keptAt[1] = 1
           /\ \A j \in 1..(Len(keptAt) - 1) : keptAt[j] < keptAt[j + 1]
           /\ \A i \in 2..(Len(path) - 1) :
                  i \in KeptSet <=> Apart(path[i], path[Before(i)], givenTolerance)
           /\ keptAt[Len(keptAt)] = Len(path)
           /\ returned = [j \in 1..Len(keptAt) |-> path[keptAt[j]]]

\* A point within the tolerance of its predecessor is kept because it is far
\* from the point returned before it, one in between is dropped, and the
\* last point is appended although it lies on the point returned before it.
C12_Witness ==
    /\ Simplified
    /\ givenTolerance = 1
    /\ Len(path) = MaxSteps + 1
    /\ keptAt = <<1, 3, 4, 5>>
    /\ ~Apart(path[3], path[2], givenTolerance)
    /\ path[5] = path[4]

---------------------------------------------------------------------------
(* C13 *)

\* C13 as stated: with a tolerance <= 0, 0 included, simplifyPath returns
\* every point of its input, also when successive points have the same
\* coordinates.
C13_NonPositiveTolerance ==
    Simplified /\ givenTolerance <= 0
        => /\ returned = path
           /\ keptAt = [j \in 1..Len(path) |-> j]

---------------------------------------------------------------------------
(* C14 *)

\* A direct call of normalizePath has returned.
Normalized == pc = "normalizePath"

\* The least and the greatest of a non-empty set of integers.
MinOf(S) == CHOOSE m \in S : \A v \in S : m <= v
MaxOf(S) == CHOOSE m \in S : \A v \in S : m >= v

\* The x-coordinates and the y-coordinates of a path of integer points.
XsOf(pts) == {pts[i].x.n : i \in 1..Len(pts)}
YsOf(pts) == {pts[i].y.n : i \in 1..Len(pts)}

\* The extent of the path along each axis is not 0.
HasExtent(pts) ==
    /\ Len(pts) > 0
    /\ MaxOf(XsOf(pts)) # MinOf(XsOf(pts))
    /\ MaxOf(YsOf(pts)) # MinOf(YsOf(pts))

\* The number v is the fraction (c - least) / (greatest - least), and lies
\* in [0,1].
IsFraction(v, c, S) ==
    /\ v.k = "fin"
    /\ v.n * (MaxOf(S) - MinOf(S)) = (c - MinOf(S)) * v.d
    /\ 0 <= v.n
    /\ v.n <= v.d

\* C14: for a path whose bounding box has non-zero width and height,
\* normalizePath returns a path of the same length and order whose i-th point
\* is ((x_i - minX) / width, (y_i - minY) / height), every coordinate of it
\* in [0,1].
C14_UnitBox ==
    Normalized /\ HasExtent(path)
        => /\ Len(returned) = Len(path)
           /\ \A i \in 1..Len(path) :
                  /\ IsFraction(returned[i].x, path[i].x.n, XsOf(path))
                  /\ IsFraction(returned[i].y, path[i].y.n, YsOf(path))

\* A path 2 wide and 3 high, with a point mapped to (1/2, 1/3).
C14_Witness ==
    /\ Normalized
    /\ HasExtent(path)
    /\ MaxOf(XsOf(path)) - MinOf(XsOf(path)) = 2
    /\ MaxOf(YsOf(path)) - MinOf(YsOf(path)) = 3
    /\ \E i \in 1..Len(returned) :
          returned[i].x = Rat(1, 2) /\ returned[i].y = Rat(1, 3)

---------------------------------------------------------------------------
(* C15 *)

\* C15: when all points share the same x, or all share the same y (the empty
\* and the one-point path included), normalizePath returns its input as it
\* is: nothing is divided.
C15_Degenerate ==
    Normalized /\ ~HasExtent(path) => returned = path

\* A vertical stroke of 5 points that is not a single spot.
C15_Witness ==
    /\ Normalized
    /\ Len(path) = MaxSteps + 1
    /\ Cardinality(XsOf(path)) = 1
    /\ Cardinality(YsOf(path)) > 2
    /\ returned = path

---------------------------------------------------------------------------
(* C16 *)

\* The bounding box of the path is exactly [0,1] x [0,1].
FillsUnitBox(pts) ==
    /\ Len(pts) > 0
    /\ MinOf(XsOf(pts)) = 0 /\ MaxOf(XsOf(pts)) = 1
    /\ MinOf(YsOf(pts)) = 0 /\ MaxOf(YsOf(pts)) = 1

\* C16: normalizePath is idempotent: normalizing what it returned gives the
\* same coordinates again, and a path whose bounding box is exactly
\* [0,1] x [0,1] keeps its coordinates.
C16_Idempotent ==
    Normalized
        => /\ normalizePath(returned) = returned
           /\ FillsUnitBox(path) => returned = path

\* A path that normalization changed, and that a second one leaves alone.
C16_Witness ==
    /\ Normalized
    /\ HasExtent(path)
    /\ returned # path
    /\ \E i \in 1..Len(returned) : returned[i].x.d > 1
    /\ normalizePath(returned) = returned

---------------------------------------------------------------------------
(* C17 *)

\* The number lies in [0,1].
InUnit(v) == v.k = "fin" /\ 0 <= v.n /\ v.n <= v.d

\* The points differ in x and differ in y.
Spread(pts) ==
    /\ \E i, j \in 1..Len(pts) : Lt(pts[i].x, pts[j].x)
    /\ \E i, j \in 1..Len(pts) : Lt(pts[i].y, pts[j].y)

\* startY, midY and endY are the heights of the first point, of the point at
\* index floor(length / 2) and of the last point of the normalized path.
HeightsRead ==
    /\ features.startY = normalized[1].y
    /\ features.midY = normalized[(Len(normalized) \div 2) + 1].y
    /\ features.endY = normalized[Len(normalized)].y

---------------------------------------------------------------------------
(* C18 *)

\* The number of points of the normalized path.
NLen == Len(normalized)

\* firstDirection is "right" exactly when the point the last third starts
\* with has a greater x than the first point.
DirectionRead ==
    features.firstDirection =
        IF Gt(lastThird(normalized)[1].x, firstThird(normalized)[1].x)
        THEN "right" ELSE "left"

\* The three thirds are contiguous and cover the path without overlap.
ThirdsCover ==
    firstThird(normalized) \o middleThird(normalized) \o lastThird(normalized)
        = normalized

\* C18 as stated: a normalized path of n >= 3 points is split into three
\* contiguous segments covering it without overlap, the first and the last
\* of floor(n / 3) points each and the middle one taking the remainder;
\* firstDirection is "right" exactly when the first point of the last third
\* has a greater x than the first point of the first third, else "left".
C18_EqualOuterThirds ==
    Done /\ features.ok /\ NLen >= MinSimplified
        => /\ ThirdsCover
           /\ Len(firstThird(normalized)) = NLen \div 3
           /\ Len(lastThird(normalized)) = NLen \div 3
           /\ Len(middleThird(normalized)) = NLen - 2 * (NLen \div 3)
           /\ DirectionRead

\* C18 amended: the first third has floor(n / 3) points, the middle third
\* floor(2n / 3) - floor(n / 3) and the last third n - floor(2n / 3), which is
\* n / 3 rounded up: the last third takes the remainder first.  The last
\* third starts at index floor(2n / 3), the point firstDirection reads.
C18_Thirds ==
    Done /\ features.ok /\ NLen >= MinSimplified
        => /\ ThirdsCover
           /\ Len(firstThird(normalized)) = NLen \div 3
           /\ Len(middleThird(normalized)) = ((2 * NLen) \div 3) - (NLen \div 3)
           /\ Len(lastThird(normalized)) = (NLen + 2) \div 3
           /\ lastThird(normalized)[1] = normalized[((2 * NLen) \div 3) + 1]
           /\ DirectionRead

\* Four points: thirds of 1, 1 and 2 points, and a first direction read at
\* the third point, which differs from the one the fourth would give.
C18_Witness ==
    /\ Done
    /\ features.ok
    /\ NLen = 4
    /\ Len(lastThird(normalized)) = 2
    /\ features.firstDirection = "right"
    /\ ~Gt(normalized[4].x, normalized[1].x)

---------------------------------------------------------------------------
(* C19 *)

\* C19: an input of at least 5 valid points whose simplified path has fewer
\* than 3 points yields no features (extractFeatures returns null, it does
\* not fail) and recognizeSymbol returns "=" with confidence 0.
C19_ShortSimplified ==
    Done /\ Cardinality(ValidAt(path)) >= MinPoints /\ Len(simplified) < MinSimplified
        => /\ ~features.ok
           /\ features = NoFeatures
           /\ result = Unrecognized
           /\ utilsResult.symbol = "="

\* Valid points of two different places, simplified to the first and the last.
C19_Witness ==
    /\ Done
    /\ Cardinality(ValidAt(path)) >= MinPoints
    /\ Len(simplified) = 2
    /\ simplified[1] # simplified[2]
    /\ \E i \in 1..Len(path) : ~WellFormed(path[i])
    /\ result = Unrecognized

---------------------------------------------------------------------------
(* C20 *)

\* A direct call of calculateCurvature has returned.
Measured == pc = "calculateCurvature"

\* Every step of the path is the same vector (dx, dy).
ConstantStep(pts, dx, dy) ==
    \A i \in 1..(Len(pts) - 1) :
        /\ pts[i + 1].x.n - pts[i].x.n = dx
        /\ pts[i + 1].y.n - pts[i].y.n = dy

\* The path is straight: at least 3 points, one step that is not of length 0.
Straight(pts) ==
    /\ Len(pts) >= 3
    /\ \E dx, dy \in Steps : (dx # 0 \/ dy # 0) /\ ConstantStep(pts, dx, dy)

\* The bearing of a step, in eighths of a turn from the positive x axis
\* towards the positive y axis; a step of no length counts as bearing 0.
Octant(dx, dy) ==
    CASE dx >= 0 /\ dy = 0 -> 0
      [] dx > 0 /\ dy > 0 -> 1
      [] dx = 0 /\ dy > 0 -> 2
      [] dx < 0 /\ dy > 0 -> 3
      [] dx < 0 /\ dy = 0 -> 4
      [] dx < 0 /\ dy < 0 -> 5
      [] dx = 0 /\ dy < 0 -> 6
      [] dx > 0 /\ dy < 0 -> 7

\* The bearing of the step that leaves point i.
OctantAt(pts, i) ==
    Octant(pts[i + 1].x.n - pts[i].x.n, pts[i + 1].y.n - pts[i].y.n)

\* The difference of two bearings, taken the short way round, in degrees.
ShortWay(a, b) ==
    45 * (IF AbsInt(a - b) > 4 THEN 8 - AbsInt(a - b) ELSE AbsInt(a - b))

\* The turning angles at the interior points from i on, summed.
RECURSIVE SumTurns(_, _)
SumTurns(pts, i) ==
    IF i > Len(pts) - 1 THEN 0
    ELSE ShortWay(OctantAt(pts, i - 1), OctantAt(pts, i)) + SumTurns(pts, i + 1)

\* C20: calculateCurvature returns 0 for a path of fewer than 3 points and
\* for a path of collinear points with a constant non-zero step; in general
\* it returns the average, over the interior points, of the absolute
\* difference of the two bearings there wrapped into [0,180].
C20_Curvature ==
    Measured
        => /\ Len(path) < 3 => curvature = Fin(0)
           /\ Straight(path) => curvature = Fin(0)
           /\ Len(path) >= 3
                  => /\ curvature.k = "fin"
                     /\ curvature.n * (Len(path) - 2) = SumTurns(path, 2) * curvature.d
                     /\ 0 <= curvature.n
                     /\ curvature.n <= 180 * curvature.d

\* A straight stroke of bearing -135 degrees, and curvature 0.
C20_Witness ==
    /\ Measured
    /\ Len(path) = MaxSteps + 1
    /\ ConstantStep(path, -1, -1)
    /\ calculateAngle(path[1], path[2]) = Fin(-135)
    /\ curvature = Fin(0)

---------------------------------------------------------------------------
(* C21 *)

\* The extent of a non-empty path of finite points along x and along y.
ExtentX(pts) ==
    Sub(pts[CHOOSE i \in 1..Len(pts) : \A j \in 1..Len(pts) : ~Lt(pts[i].x, pts[j].x)].x,
        pts[CHOOSE i \in 1..Len(pts) : \A j \in 1..Len(pts) : ~Gt(pts[i].x, pts[j].x)].x)
ExtentY(pts) ==
    Sub(pts[CHOOSE i \in 1..Len(pts) : \A j \in 1..Len(pts) : ~Lt(pts[i].y, pts[j].y)].y,
        pts[CHOOSE i \in 1..Len(pts) : \A j \in 1..Len(pts) : ~Gt(pts[i].y, pts[j].y)].y)

\* The finite number v is w / h, or w itself when h is 0.
IsRatioOrWidth(v, w, h) ==
    IF h.n = 0 THEN v = w
    ELSE v.n * h.n * w.d = w.n * h.d * v.d

\* C21: for an input of finite points for which features are returned,
\* aspectRatio is a finite number >= 0, the width of the normalized path's
\* bounding box divided by its height, the height taken as 1 when it is 0:
\* nothing is divided by zero, also on a horizontal or a vertical line.
C21_AspectRatio ==
    Done /\ features.ok /\ FiniteCoordinates(safe)
        => /\ features.aspectRatio.k = "fin"
           /\ features.aspectRatio.n >= 0
           /\ IsRatioOrWidth(features.aspectRatio, ExtentX(normalized),
                             ExtentY(normalized))

\* A horizontal stroke: height 0, and the width as the aspect ratio.
C21_Witness ==
    /\ Done
    /\ features.ok
    /\ FiniteCoordinates(safe)
    /\ ExtentY(normalized) = Fin(0)
    /\ features.aspectRatio = Fin(10)

---------------------------------------------------------------------------
(* C22 *)

\* A gesture has ended and the screen's handler has returned.
StrokeEnded == pc = "idle" /\ gestures > 0

\* A valid point of the path has an infinite coordinate.
HasInfinite(pts) ==
    \E i \in ValidAt(pts) : pts[i].x.k # "fin" \/ pts[i].y.k # "fin"

\* C22 as stated: when the stroke that ended has at least 5 numeric,
\* non-NaN points and one of them has an infinite coordinate, Canvas.onEnd
\* followed by handleGestureEnd displays "Invalid input": not "=", and not
\* the symbol that was displayed before.
C22_InvalidInput ==
    StrokeEnded /\ Cardinality(ValidAt(rawPath)) >= MinPoints /\ HasInfinite(rawPath)
        => currentSymbol = "Invalid input"

---------------------------------------------------------------------------
(* C23 *)

---------------------------------------------------------------------------
(* C24 *)

\* A call of recognizeSymbol, or of one of its stages, returns in this step.
CallReturns ==
    /\ pc = "drawing"
    /\ pc' \in {"done", "simplifyPath", "normalizePath", "calculateCurvature"}

\* C24: a call of recognizeSymbol, and of each of its stages, leaves the
\* array it is given and every point in it as they were (same length, same
\* order, same coordinates), and does not touch the saved paths of the
\* caller.
C24_InputUntouched ==
    [][CallReturns => path' = path /\ paths' = paths]_vars

\* A call whose filter, simplification and normalization each produced a
\* path other than the one they were given.
C24_Witness ==
    /\ Done
    /\ features.ok
    /\ Len(safe) < Len(path)
    /\ Len(simplified) < Len(safe)
    /\ normalized # simplified

---------------------------------------------------------------------------
(* C25 *)

\* A gesture starts in this step.
Starts == pc = "idle" /\ pc' = "drawing"

\* C25: when the stroke before ended with a recognized symbol (">", "<" or
\* "="), the start of the next gesture empties the saved paths and resets
\* the displayed symbol, and the new stroke is recorded after that; after a
\* stroke that ended in any other way ("Too short", "Error") the start of
\* the next gesture clears nothing.
C25_ClearOnNextStart ==
    [][Starts =>
           /\ Len(path') = 1
           /\ IF currentSymbol \in {">", "<", "="}
              THEN paths' = <<>> /\ currentSymbol' = ""
              ELSE paths' = paths /\ currentSymbol' = currentSymbol]_vars

\* The second gesture has started after a stroke that was classified: the
\* screen is empty and the new stroke holds its first point.
C25_Witness ==
    /\ pc = "drawing"
    /\ gestures = 1
    /\ Len(invoked) = 1
    /\ Len(rawPath) >= MinPoints
    /\ paths = <<>>
    /\ currentSymbol = ""
    /\ Len(path) = 1

---------------------------------------------------------------------------
(* C26 *)

\* The bounding box of the path is exactly [0,1] x [0,1]: every coordinate
\* lies in [0,1], and 0 and 1 are both taken along each axis.
UnitBox(pts) ==
    /\ \A i \in 1..Len(pts) : InUnit(pts[i].x) /\ InUnit(pts[i].y)
    /\ \E i, j \in 1..Len(pts) : pts[i].x = Fin(0) /\ pts[j].x = Fin(1)
    /\ \E i, j \in 1..Len(pts) : pts[i].y = Fin(0) /\ pts[j].y = Fin(1)

\* C26 as stated: for every input for which features are returned and whose
\* simplified path has non-zero width and non-zero height, the normalized
\* path's bounding box is exactly [0,1] x [0,1], aspectRatio is 1 and the
\* aspect-ratio gate is open.
C26_UnitBoxAlways ==
    Done /\ features.ok /\ Spread(simplified)
        => /\ UnitBox(normalized)
           /\ features.aspectRatio = Fin(1)
           /\ InsideGate

\* C26, amended: the same for every input whose valid points are finite.
C26_UnitBoxFinite ==
    Done /\ features.ok /\ FiniteCoordinates(safe) /\ Spread(simplified)
        => /\ UnitBox(normalized)
           /\ features.aspectRatio = Fin(1)
           /\ InsideGate

\* A stroke more than three times as wide as it is high, and its aspect
\* ratio of 1.
C26_Witness ==
    /\ Done
    /\ features.ok
    /\ FiniteCoordinates(safe)
    /\ ExtentX(simplified) = Fin(10)
    /\ ExtentY(simplified) = Fin(3)
    /\ UnitBox(normalized)
    /\ features.aspectRatio = Fin(1)

---------------------------------------------------------------------------
(* C27 *)

\* All points share the same x; all points share the same y.
SharesX(pts) == \A i, j \in 1..Len(pts) : pts[i].x = pts[j].x
SharesY(pts) == \A i, j \in 1..Len(pts) : pts[i].y = pts[j].y

\* C27: with the default tolerance, every stroke of finite points that all
\* share the same x or all share the same y is classified "=": when
\* features are extracted, normalization was skipped, aspectRatio is 0 (a
\* vertical stroke) or the raw width, greater than 5 (a horizontal one),
\* and the gate is closed.
C27_StraightStroke ==
    Done /\ AllFinite(path) /\ (SharesX(path) \/ SharesY(path))
        => /\ result.symbol = "="
           /\ utilsResult.symbol = "="
           /\ features.ok
                  => /\ normalized = simplified
                     /\ ~InsideGate
                     /\ IF SharesX(path)
                        THEN features.aspectRatio = Fin(0)
                        ELSE /\ features.aspectRatio = ExtentX(simplified)
                             /\ Gt(features.aspectRatio, Fin(DefaultTolerance))

\* A horizontal stroke that doubles back on itself: its middle point is the
\* rightmost one, and it is classified "=".
C27_Witness ==
    /\ Done
    /\ AllFinite(path)
    /\ SharesY(path)
    /\ features.ok
    /\ MidRightmost
    /\ features.aspectRatio = Fin(10)
    /\ result.symbol = "="

\* A vertical stroke that doubles back on itself.
C27_WitnessVertical ==
    /\ Done
    /\ AllFinite(path)
    /\ SharesX(path)
    /\ features.ok
    /\ MidLowest
    /\ features.aspectRatio = Fin(0)
    /\ result.symbol = "="

---------------------------------------------------------------------------
(* C28 *)

\* C28: every normalized path that reaches the partition step (n >= 3
\* points) has a non-empty first third (indices 0..floor(n/3)-1) and a
\* non-empty last third (indices floor(2n/3)..n-1): the null return for
\* invalid segments is never taken, features are returned, and the first
\* points of the two thirds are points of the path.
C28_ThirdsNonEmpty ==
    Done /\ NLen >= MinSimplified
        => /\ features.ok
           /\ Len(firstThird(normalized)) = NLen \div 3
           /\ Len(firstThird(normalized)) >= 1
           /\ Len(lastThird(normalized)) = NLen - ((2 * NLen) \div 3)
           /\ Len(lastThird(normalized)) >= 1
           /\ firstThird(normalized)[1] = normalized[1]
           /\ ((2 * NLen) \div 3) + 1 <= NLen
           /\ lastThird(normalized)[1] = normalized[((2 * NLen) \div 3) + 1]

\* The shortest path that is partitioned: three points, one in each third.
C28_Witness ==
    /\ Done
    /\ NLen = MinSimplified
    /\ features.ok
    /\ Len(firstThird(normalized)) = 1
    /\ Len(middleThird(normalized)) = 1
    /\ Len(lastThird(normalized)) = 1

---------------------------------------------------------------------------
(* C29 *)

\* C29: for a path longer than 2 and a tolerance >= 0, what simplifyPath
\* returns is a sub-sequence of the input taken at strictly increasing
\* positions, and two consecutive returned points other than the final pair
\* are more than the tolerance apart: only the last point, which is always
\* returned, may lie within the tolerance of the point before it.
C29_SpacedSubsequence ==
    Simplified /\ Len(path) > 2 /\ givenTolerance >= 0
        => /\ \A j \in 1..Len(keptAt) : keptAt[j] \in 1..Len(path)
           /\ \A j \in 1..(Len(keptAt) - 1) : keptAt[j] < keptAt[j + 1]
           /\ Len(returned) = Len(keptAt)
           /\ \A j \in 1..Len(keptAt) : returned[j] = path[keptAt[j]]
           /\ \A j \in 1..(Len(returned) - 2) :
                  Apart(returned[j], returned[j + 1], givenTolerance)

\* Three points are returned, the first two more than the tolerance apart
\* and the last one within the tolerance of the second.
C29_Witness ==
    /\ Simplified
    /\ Len(path) > 2
    /\ givenTolerance = 1
    /\ Len(returned) = 3
    /\ Apart(returned[1], returned[2], givenTolerance)
    /\ ~Apart(returned[2], returned[3], givenTolerance)
    /\ returned[2] # returned[3]

---------------------------------------------------------------------------
(* C30 *)

\* C30: after any sequence of gestures the saved paths hold at most one
\* stroke of 5 or more points, and that one is the path saved last; every
\* other saved path is a too-short stroke of 1 to 4 points.
C30_OneLongStroke ==
    /\ \A i \in 1..Len(paths) : Len(paths[i]) >= 1
    /\ \A i \in 1..(Len(paths) - 1) : Len(paths[i]) < MinPoints
    /\ Cardinality({i \in 1..Len(paths) : Len(paths[i]) >= MinPoints}) <= 1

\* A too-short stroke and then a classified one are both on the screen.
C30_Witness ==
    /\ StrokeEnded
    /\ gestures = 2
    /\ Len(paths) = 2
    /\ Len(paths[1]) \in 1..(MinPoints - 1)
    /\ Len(paths[2]) >= MinPoints
    /\ isRecognized(currentSymbol)

====
